---- MODULE Spec2Model ----
(***************************************************************************)
(* Petstore API test-automation suite: the service wrappers (PetService,   *)
(* StoreService, UserService), the endpoint templates, the data factories  *)
(* and the test scenarios that compose them.                               *)
(*                                                                         *)
(* A JavaScript string is a sequence of one-character strings, so that     *)
(* template literals, includes(), endsWith() and path.basename() are       *)
(* computed character by character.  A JavaScript object is a function     *)
(* from its own keys to values: an absent key is absent from the DOMAIN.   *)
(* An optional argument is NONE or Some(v).                                *)
(***************************************************************************)
EXTENDS Integers, Sequences, FiniteSets, TLC

VARIABLES
    pc,         \* wrapper invocation: "idle", "awaiting", "returned", "threw"
    call,       \* the current wrapper invocation: [op, args]
    sent,       \* the HTTP requests the current invocation has issued
    net,        \* what the transport delivered for the pending request
    outcome,    \* what the invocation gave its caller
    nCalls,     \* wrapper invocations so far
    nRequests,  \* HTTP requests issued so far
    firstDelete, \* the first delete call made: the call, its request, whether other calls followed
    now,        \* the last reading taken of the millisecond clock
    made,       \* the last factory call: its inputs, clock readings, random draws, result
    prev,       \* the factory call before it: its factory and identifying keys
    updated,    \* the last update-factory call: the instance before and after, the result
    scen,       \* per test scenario: its phase and its verdict
    wire,       \* per test scenario: its request or response in flight
    pets,       \* the pets the backend holds, by id
    orders,     \* the orders the backend holds, by id
    run,        \* per multi-step scenario: its verdict, its steps issued and consumed, its locals
    flight,     \* the requests and answers of the multi-step scenarios in flight
    faults,     \* the requests the backend or the transport has failed so far
    env         \* process.env.API_BASE_URL when the configuration is loaded

wrapperVars == <<pc, call, sent, net, outcome, nCalls, nRequests, firstDelete, env>>
factoryVars == <<now, made, prev, updated>>
scenarioVars == <<scen, wire, pets>>
stepVars == <<orders, run, flight, faults>>
vars == <<pc, call, sent, net, outcome, nCalls, nRequests, firstDelete, now, made, prev, updated,
          scen, wire, pets, orders, run, flight, faults, env>>

\* ------------------------------------------------------------ bounds

MaxCalls == 3

\* The clock is read between StartTime and StartTime + MaxElapsed.
StartTime == 998
MaxElapsed == 1

\* Math.random() yields one of 0/RandomGrain .. (RandomGrain-1)/RandomGrain.
RandomGrain == 2

\* The requests of one run that the backend answers amiss or the transport
\* fails to deliver.
MaxFaults == 1

\* ------------------------------------------------------------ values

NONE == <<>>
Some(v) == <<v>>

NoFields == [k \in {} |-> 0]

\* JavaScript truthiness of an optional string argument: undefined and ''
\* are falsy.
Truthy(opt) == opt # NONE /\ opt[1] # <<>>

DigitChar(d) == <<"0", "1", "2", "3", "4", "5", "6", "7", "8", "9">>[d + 1]

RECURSIVE Digits(_)
Digits(n) == IF n < 10 THEN <<DigitChar(n)>>
             ELSE Digits(n \div 10) \o <<DigitChar(n % 10)>>

\* The value `undefined` where a number is expected (`createdPet.id!` of a
\* body that has no id): an integer no identifier of the model takes.
undefined == -1000000

\* `${n}` of a number, or of undefined, in a template literal
NumberToString(n) ==
    IF n = undefined THEN <<"u", "n", "d", "e", "f", "i", "n", "e", "d">>
    ELSE IF n < 0 THEN <<"-">> \o Digits(-n) ELSE Digits(n)

\* String.prototype.includes
Includes(s, sub) ==
    \E i \in 1..(Len(s) - Len(sub) + 1) : SubSeq(s, i, i + Len(sub) - 1) = sub

\* String.prototype.endsWith
EndsWith(s, suffix) ==
    /\ Len(s) >= Len(suffix)
    /\ SubSeq(s, Len(s) - Len(suffix) + 1, Len(s)) = suffix

RECURSIVE StripTrailingSlashes(_)
StripTrailingSlashes(p) ==
    IF Len(p) > 1 /\ p[Len(p)] = "/" THEN StripTrailingSlashes(SubSeq(p, 1, Len(p) - 1))
    ELSE p

\* path.basename (posix): the part after the last '/', trailing '/' ignored
basename(p) ==
    LET q == StripTrailingSlashes(p)
        slashes == {i \in 1..Len(q) : q[i] = "/"}
        last == IF slashes = {} THEN 0 ELSE CHOOSE i \in slashes : \A j \in slashes : j <= i
    IN IF q = <<"/">> THEN q ELSE SubSeq(q, last + 1, Len(q))

\* ------------------------------------------------------------ endpoints

PET_BASE == <<"p", "e", "t">>
\* PET_BY_ID written with a leading slash
PET_BY_ID_leadingSlash(id) == <<"/", "p", "e", "t", "/">> \o NumberToString(id)

PET_BY_ID(id) == <<"p", "e", "t", "/">> \o NumberToString(id)
PET_BY_STATUS(status) ==
    <<"p", "e", "t", "/", "f", "i", "n", "d", "B", "y", "S", "t", "a", "t", "u", "s",
      "?", "s", "t", "a", "t", "u", "s", "=">> \o status

STORE_INVENTORY == <<"s", "t", "o", "r", "e", "/", "i", "n", "v", "e", "n", "t", "o", "r", "y">>
STORE_ORDER == <<"s", "t", "o", "r", "e", "/", "o", "r", "d", "e", "r">>
STORE_ORDER_BY_ID(id) ==
    <<"s", "t", "o", "r", "e", "/", "o", "r", "d", "e", "r", "/">> \o NumberToString(id)

USER_BASE == <<"u", "s", "e", "r">>
USER_LOGIN == <<"u", "s", "e", "r", "/", "l", "o", "g", "i", "n">>
USER_LOGOUT == <<"u", "s", "e", "r", "/", "l", "o", "g", "o", "u", "t">>
USER_BY_USERNAME(username) == <<"u", "s", "e", "r", "/">> \o username
USER_CREATE_WITH_ARRAY ==
    <<"u", "s", "e", "r", "/", "c", "r", "e", "a", "t", "e", "W", "i", "t", "h",
      "A", "r", "r", "a", "y">>
USER_CREATE_WITH_LIST ==
    <<"u", "s", "e", "r", "/", "c", "r", "e", "a", "t", "e", "W", "i", "t", "h",
      "L", "i", "s", "t">>

\* ------------------------------------------------------------ configuration

\* process.env.API_BASE_URL: unset, empty, or a string.
EnvInputs ==
    { NONE, Some(<<>>), Some(<<"h", "t", "t", "p", ":", "/", "/", "h", "/", "v", "2", "/">>), Some(<<"h", "t", "t", "p", ":", "/", "/", "h", "/", "v", "2">>) }

\* API_CONFIG.BASE_URL: process.env.API_BASE_URL || 'https://petstore.swagger.io/v2/'
BASE_URL(e) == IF Truthy(e) THEN e[1] ELSE <<"h", "t", "t", "p", "s", ":", "/", "/", "p", "e", "t", "s", "t", "o", "r", "e", ".", "s", "w", "a", "g", "g", "e", "r", ".", "i", "o", "/", "v", "2", "/">>

\* use.baseURL of playwright.config.ts, the same expression
baseURL(e) == IF Truthy(e) THEN e[1] ELSE <<"h", "t", "t", "p", "s", ":", "/", "/", "p", "e", "t", "s", "t", "o", "r", "e", ".", "s", "w", "a", "g", "g", "e", "r", ".", "i", "o", "/", "v", "2", "/">>

\* ------------------------------------------------------------ transport

\* The options every JSON-bodied wrapper passes: the input as `data`, and
\* the two JSON headers.
JsonHeaders == [ContentType |-> "application/json", Accept |-> "application/json"]
AcceptHeaders == [Accept |-> "application/json"]

Request(method, url, options) == [method |-> method, url |-> url, options |-> options]

\* A request context whose failures are caught and turned into a response
Fetch_swallowFailure(req, delivered) ==
    IF delivered.kind = "failure"
      THEN [kind |-> "response", status |-> 0, body |-> <<>>]
      ELSE [kind |-> "response", status |-> delivered.status, body |-> delivered.body]

\* APIRequestContext.get/post/put/delete as the wrappers use it: the call
\* resolves to the response whatever its status, unless the options ask for
\* failOnStatusCode; it rejects when the transport fails.
Fetch(req, delivered) ==
    IF delivered.kind = "failure"
      THEN [kind |-> "throw", error |-> "transport"]
    ELSE IF /\ "failOnStatusCode" \in DOMAIN req.options
            /\ req.options.failOnStatusCode
            /\ delivered.status >= 400
      THEN [kind |-> "throw", error |-> "status"]
    ELSE [kind |-> "response", status |-> delivered.status, body |-> delivered.body]

\* ------------------------------------------------------------ file system

\* The files uploadImage may be pointed at: readable files with their
\* content, a path that exists but cannot be read, and every other path
\* missing.
Disk(filePath) ==
    IF filePath = <<"i", "m", "g", "/", "p", "h", "o", "t", "o", ".", "j", "p", "g">>
      THEN [kind |-> "file", content |-> <<"J", "P", "G">>]
    ELSE IF filePath = <<"s", "c", "a", "n", ".", "p", "d", "f">>
      THEN [kind |-> "file", content |-> <<"P", "D", "F">>]
    ELSE IF filePath = <<"e", "m", "p", "t", "y", ".", "j", "p", "g">>
      THEN [kind |-> "file", content |-> <<>>]
    ELSE IF filePath = <<"x", "/", "f", "a", "k", "e", "-", "p", "a", "t", "h", ".", "p", "n", "g">>
      THEN [kind |-> "file", content |-> <<"P", "N", "G">>]
    ELSE IF filePath = <<"l", "o", "c", "k", "e", "d", ".", "j", "p", "g">>
      THEN [kind |-> "unreadable"]
    ELSE [kind |-> "missing"]

\* fs.readFileSync: the content, or an exception
readFileSync(filePath) ==
    IF Disk(filePath).kind = "file"
      THEN [kind |-> "ok", buffer |-> Disk(filePath).content]
      ELSE [kind |-> "throw"]

FilePathInputs ==
    { <<"f", "a", "k", "e", "-", "p", "a", "t", "h", ".", "j", "p", "g">>,
      <<"d", "o", "c", "u", "m", "e", "n", "t", ".", "p", "d", "f">>,
      <<"i", "m", "g", "/", "m", "i", "s", "s", "i", "n", "g", ".", "p", "n", "g">>,
      <<"g", "o", "n", "e", ".", "p", "d", "f">>,
      <<"i", "m", "g", "/", "p", "h", "o", "t", "o", ".", "j", "p", "g">>,
      <<"s", "c", "a", "n", ".", "p", "d", "f">>,
      <<"e", "m", "p", "t", "y", ".", "j", "p", "g">>,
      <<"x", "/", "f", "a", "k", "e", "-", "p", "a", "t", "h", ".", "p", "n", "g">>,
      <<"l", "o", "c", "k", "e", "d", ".", "j", "p", "g">> }

\* ------------------------------------------------------------ inputs

PetIdInputs == {-1, 7, 999999999}

PetInputs ==
    { [id |-> 7, name |-> <<"B", "u", "d", "d", "y">>,
       photoUrls |-> << <<"u", ".", "j", "p", "g">> >>,
       status |-> <<"a", "v", "a", "i", "l", "a", "b", "l", "e">>],
      [photoUrls |-> << <<"u", ".", "j", "p", "g">> >>,
       status |-> <<"a", "v", "a", "i", "l", "a", "b", "l", "e">>],
      [name |-> <<>>, photoUrls |-> <<>>, status |-> <<"s", "o", "l", "d">>],
      [id |-> -1, name |-> <<"M", "a", "x">>, photoUrls |-> <<>>,
       status |-> <<"b", "o", "g", "u", "s">>] }

StatusInputs == { <<"a", "v", "a", "i", "l", "a", "b", "l", "e">>, <<"b", "o", "g", "u", "s">>, <<>> }

\* An optional string argument: left out, the empty string, or v.
OptionalInputs(v) == {NONE, Some(<<>>), Some(v)}

\* What the backend may answer, and the transport deliver.
StatusCodes == {200, 400, 404, 500}
Bodies == { <<"{", "}">>, <<"n", "o">> }

\* ------------------------------------------------------------ invocation

\* An await not yet settled, a call not yet returned.
Pending == [kind |-> "none"]

CanInvoke == pc \in {"idle", "returned", "threw"} /\ nCalls < MaxCalls

\* What is kept of the calls made so far, c being the call now made with
\* the requests reqs: the first deletePet, deleteOrder or deleteUser, and
\* whether a different call has been made since.
Remember(c, reqs) ==
    IF firstDelete.kind = "delete"
      THEN [firstDelete EXCEPT !.between = @ \/ c # firstDelete.call]
    ELSE IF c.op \in {"deletePet", "deleteOrder", "deleteUser"}
      THEN [kind |-> "delete", call |-> c, reqs |-> reqs, between |-> FALSE]
    ELSE firstDelete

\* A wrapper method up to its await: the requests it has handed to the
\* request context.
Invoke(op, args, reqs) ==
    /\ CanInvoke
    /\ call' = [op |-> op, args |-> args]
    /\ sent' = reqs
    /\ nCalls' = nCalls + 1
    /\ nRequests' = nRequests + Len(reqs)
    /\ pc' = "awaiting"
    /\ net' = Pending
    /\ outcome' = Pending
    /\ firstDelete' = Remember([op |-> op, args |-> args], reqs)
    /\ UNCHANGED <<env, factoryVars, scenarioVars, stepVars>>

\* A wrapper method that throws before reaching its request.
ThrowBeforeRequest(op, args) ==
    /\ CanInvoke
    /\ call' = [op |-> op, args |-> args]
    /\ sent' = <<>>
    /\ nCalls' = nCalls + 1
    /\ nRequests' = nRequests
    /\ pc' = "threw"
    /\ net' = Pending
    /\ outcome' = [kind |-> "throw", error |-> "file"]
    /\ firstDelete' = Remember([op |-> op, args |-> args], <<>>)
    /\ UNCHANGED <<env, factoryVars, scenarioVars, stepVars>>

\* `return await this.request.<method>(...)`: the await settles and the
\* wrapper hands its caller what the request context gave.
Settle(delivered) ==
    /\ pc = "awaiting"
    /\ net' = delivered
    /\ outcome' = Fetch(sent[Len(sent)], delivered)
    /\ pc' = IF Fetch(sent[Len(sent)], delivered).kind = "response" THEN "returned" ELSE "threw"
    /\ UNCHANGED <<call, sent, nCalls, nRequests, firstDelete, env>>
    /\ UNCHANGED <<factoryVars, scenarioVars, stepVars>>

BackendAnswers == \E status \in StatusCodes, body \in Bodies :
    Settle([kind |-> "answer", status |-> status, body |-> body])

TransportFails == Settle([kind |-> "failure"])

\* ------------------------------------------------------------ PetService

createPetRequest(petData) ==
    Request("POST", PET_BASE, [data |-> petData, headers |-> JsonHeaders])

createPet(petData) == Invoke("createPet", [petData |-> petData], <<createPetRequest(petData)>>)

\* getPet asking the request context to reject on an error status
getPetRequest_failOnStatus(petId) ==
    Request("GET", PET_BY_ID(petId), [headers |-> AcceptHeaders, failOnStatusCode |-> TRUE])

getPetRequest(petId) == Request("GET", PET_BY_ID(petId), [headers |-> AcceptHeaders])

getPet(petId) == Invoke("getPet", [petId |-> petId], <<getPetRequest(petId)>>)

updatePetRequest(petData) ==
    Request("PUT", PET_BASE, [data |-> petData, headers |-> JsonHeaders])

updatePet(petData) == Invoke("updatePet", [petData |-> petData], <<updatePetRequest(petData)>>)

\* deletePet issuing a GET
deletePetRequest_asGet(petId) == Request("GET", PET_BY_ID(petId), [headers |-> AcceptHeaders])

deletePetRequest(petId) == Request("DELETE", PET_BY_ID(petId), [headers |-> AcceptHeaders])

deletePet(petId) == Invoke("deletePet", [petId |-> petId], <<deletePetRequest(petId)>>)

findPetsByStatusRequest(status) ==
    Request("GET", PET_BY_STATUS(status), [headers |-> AcceptHeaders])

findPetsByStatus(status) ==
    Invoke("findPetsByStatus", [status |-> status], <<findPetsByStatusRequest(status)>>)

\* uploadImage, the try block: the placeholder without touching the disk
\* when the path names one of the two test patterns, the file otherwise.
uploadImageTry(filePath) ==
    IF \/ Includes(filePath, <<"f", "a", "k", "e", "-", "p", "a", "t", "h">>)
       \/ Includes(filePath, <<"d", "o", "c", "u", "m", "e", "n", "t", ".", "p", "d", "f">>)
      THEN [kind |-> "ok",
            buffer |-> <<"d", "u", "m", "m", "y", " ", "i", "m", "a", "g", "e", " ",
                         "c", "o", "n", "t", "e", "n", "t">>,
            name |-> basename(filePath)]
    ELSE IF readFileSync(filePath).kind = "ok"
      THEN [kind |-> "ok", buffer |-> readFileSync(filePath).buffer, name |-> basename(filePath)]
    ELSE [kind |-> "throw"]

\* uploadImage, try and catch together: fileBuffer and fileName
uploadImageFile(filePath) ==
    IF uploadImageTry(filePath).kind = "ok"
      THEN uploadImageTry(filePath)
      ELSE [kind |-> "ok",
            buffer |-> <<"d", "u", "m", "m", "y", " ", "c", "o", "n", "t", "e", "n", "t">>,
            name |-> <<"t", "e", "s", "t", ".", "j", "p", "g">>]

multipartPayload(filePath, additionalMetadata) ==
    LET f == uploadImageFile(filePath)
        file == [name |-> f.name,
                 mimeType |-> IF EndsWith(f.name, <<".", "p", "d", "f">>)
                                THEN "application/pdf" ELSE "image/jpeg",
                 buffer |-> f.buffer]
    IN IF Truthy(additionalMetadata)
         THEN [file |-> file, additionalMetadata |-> additionalMetadata[1]]
         ELSE [file |-> file]

uploadImageRequest(petId, filePath, additionalMetadata) ==
    Request("POST",
            PET_BY_ID(petId) \o <<"/", "u", "p", "l", "o", "a", "d", "I", "m", "a", "g", "e">>,
            [multipart |-> multipartPayload(filePath, additionalMetadata)])

\* uploadImage posting once in the catch block and once more after it
uploadImage_postTwice(petId, filePath, additionalMetadata) ==
    Invoke("uploadImage",
           [petId |-> petId, filePath |-> filePath, additionalMetadata |-> additionalMetadata],
           IF uploadImageTry(filePath).kind = "ok"
             THEN <<uploadImageRequest(petId, filePath, additionalMetadata)>>
             ELSE <<uploadImageRequest(petId, filePath, additionalMetadata),
                    uploadImageRequest(petId, filePath, additionalMetadata)>>)

\* uploadImage without its catch block: the read error escapes
uploadImage_noCatch(petId, filePath, additionalMetadata) ==
    IF uploadImageTry(filePath).kind = "ok"
      THEN Invoke("uploadImage",
                  [petId |-> petId, filePath |-> filePath,
                   additionalMetadata |-> additionalMetadata],
                  <<uploadImageRequest(petId, filePath, additionalMetadata)>>)
      ELSE ThrowBeforeRequest("uploadImage",
                  [petId |-> petId, filePath |-> filePath,
                   additionalMetadata |-> additionalMetadata])

uploadImage(petId, filePath, additionalMetadata) ==
    Invoke("uploadImage",
           [petId |-> petId, filePath |-> filePath, additionalMetadata |-> additionalMetadata],
           <<uploadImageRequest(petId, filePath, additionalMetadata)>>)

\* formData filled with `name ?? ''` and `status ?? ''`
formData_emptyForAbsent(name, status) ==
    [name |-> IF name = NONE THEN <<>> ELSE name[1],
     status |-> IF status = NONE THEN <<>> ELSE status[1]]

formData(name, status) ==
    LET withName == IF Truthy(name) THEN [name |-> name[1]] ELSE NoFields
    IN IF Truthy(status) THEN withName @@ [status |-> status[1]] ELSE withName

updatePetWithFormRequest(petId, name, status) ==
    Request("POST", PET_BY_ID(petId),
            [form |-> formData(name, status),
             headers |-> [ContentType |-> "application/x-www-form-urlencoded"]])

updatePetWithForm(petId, name, status) ==
    Invoke("updatePetWithForm", [petId |-> petId, name |-> name, status |-> status],
           <<updatePetWithFormRequest(petId, name, status)>>)

PetServiceCall ==
    \/ \E petData \in PetInputs : createPet(petData)
    \/ \E petId \in PetIdInputs : getPet(petId)
    \/ \E petData \in PetInputs : updatePet(petData)
    \/ \E petId \in PetIdInputs : deletePet(petId)
    \/ \E status \in StatusInputs : findPetsByStatus(status)
    \/ \E petId \in {7, 999999999}, filePath \in FilePathInputs,
          additionalMetadata \in OptionalInputs(<<"m", "e", "t", "a">>) :
            uploadImage(petId, filePath, additionalMetadata)
    \/ \E petId \in {7, 999999999}, name \in OptionalInputs(<<"M", "a", "x">>),
          status \in OptionalInputs(<<"s", "o", "l", "d">>) :
            updatePetWithForm(petId, name, status)

\* ------------------------------------------------------------ StoreService

OrderIdInputs == {-1, 5}

OrderInputs ==
    { [id |-> 5, petId |-> 123, quantity |-> 2,
       status |-> <<"p", "l", "a", "c", "e", "d">>, complete |-> FALSE],
      [petId |-> 1, quantity |-> -1],
      NoFields }

getInventory == Invoke("getInventory", NoFields,
                       <<Request("GET", STORE_INVENTORY, [headers |-> AcceptHeaders])>>)

placeOrderRequest(orderData) ==
    Request("POST", STORE_ORDER, [data |-> orderData, headers |-> JsonHeaders])

placeOrder(orderData) ==
    Invoke("placeOrder", [orderData |-> orderData], <<placeOrderRequest(orderData)>>)

\* getOrderById leaving the id out of the path
getOrderByIdRequest_noId(orderId) == Request("GET", STORE_ORDER, [headers |-> AcceptHeaders])

getOrderByIdRequest(orderId) ==
    Request("GET", STORE_ORDER_BY_ID(orderId), [headers |-> AcceptHeaders])

getOrderById(orderId) ==
    Invoke("getOrderById", [orderId |-> orderId], <<getOrderByIdRequest(orderId)>>)

deleteOrderRequest(orderId) ==
    Request("DELETE", STORE_ORDER_BY_ID(orderId), [headers |-> AcceptHeaders])

deleteOrder(orderId) ==
    Invoke("deleteOrder", [orderId |-> orderId], <<deleteOrderRequest(orderId)>>)

StoreServiceCall ==
    \/ getInventory
    \/ \E orderData \in OrderInputs : placeOrder(orderData)
    \/ \E orderId \in OrderIdInputs : getOrderById(orderId)
    \/ \E orderId \in OrderIdInputs : deleteOrder(orderId)

\* ------------------------------------------------------------ UserService

UsernameInputs == { <<"b", "o", "b">>, <<>>, <<"a", "#", "b">> }
PasswordInputs == { <<"p", "w">>, <<"p", "&", "q", "=", "r">> }

UserInputs ==
    { [id |-> 3, username |-> <<"b", "o", "b">>, password |-> <<"p", "w">>, userStatus |-> 1],
      [username |-> <<>>, password |-> <<"p", "w">>],
      [id |-> -1] }

UserListInputs ==
    { <<>>,
      << [username |-> <<"b", "o", "b">>] >>,
      << [username |-> <<"b", "o", "b">>], [id |-> -1] >> }

\* createUser filling in a userStatus the caller left out
createUserRequest_defaultStatus(userData) ==
    Request("POST", USER_BASE,
            [data |-> userData @@ [userStatus |-> 0], headers |-> JsonHeaders])

createUserRequest(userData) ==
    Request("POST", USER_BASE, [data |-> userData, headers |-> JsonHeaders])

createUser(userData) ==
    Invoke("createUser", [userData |-> userData], <<createUserRequest(userData)>>)

createUsersWithArrayRequest(users) ==
    Request("POST", USER_CREATE_WITH_ARRAY, [data |-> users, headers |-> JsonHeaders])

createUsersWithArray(users) ==
    Invoke("createUsersWithArray", [users |-> users], <<createUsersWithArrayRequest(users)>>)

createUsersWithListRequest(users) ==
    Request("POST", USER_CREATE_WITH_LIST, [data |-> users, headers |-> JsonHeaders])

createUsersWithList(users) ==
    Invoke("createUsersWithList", [users |-> users], <<createUsersWithListRequest(users)>>)

getUserByUsernameRequest(username) ==
    Request("GET", USER_BY_USERNAME(username), [headers |-> AcceptHeaders])

getUserByUsername(username) ==
    Invoke("getUserByUsername", [username |-> username],
           <<getUserByUsernameRequest(username)>>)

updateUserRequest(username, userData) ==
    Request("PUT", USER_BY_USERNAME(username), [data |-> userData, headers |-> JsonHeaders])

updateUser(username, userData) ==
    Invoke("updateUser", [username |-> username, userData |-> userData],
           <<updateUserRequest(username, userData)>>)

\* deleteUser remembering the user it has deleted, and only looking it up
\* the next time
deleteUserRequest_remembering(username) ==
    IF /\ firstDelete.kind = "delete"
       /\ firstDelete.call = [op |-> "deleteUser", args |-> [username |-> username]]
      THEN Request("GET", USER_BY_USERNAME(username), [headers |-> AcceptHeaders])
      ELSE Request("DELETE", USER_BY_USERNAME(username), [headers |-> AcceptHeaders])

deleteUserRequest(username) ==
    Request("DELETE", USER_BY_USERNAME(username), [headers |-> AcceptHeaders])

deleteUser(username) ==
    Invoke("deleteUser", [username |-> username], <<deleteUserRequest(username)>>)

loginRequest(username, password) ==
    Request("GET",
            USER_LOGIN \o <<"?", "u", "s", "e", "r", "n", "a", "m", "e", "=">> \o username
                       \o <<"&", "p", "a", "s", "s", "w", "o", "r", "d", "=">> \o password,
            [headers |-> AcceptHeaders])

login(username, password) ==
    Invoke("login", [username |-> username, password |-> password],
           <<loginRequest(username, password)>>)

logout == Invoke("logout", NoFields,
                 <<Request("GET", USER_LOGOUT, [headers |-> AcceptHeaders])>>)

UserServiceCall ==
    \/ \E userData \in UserInputs : createUser(userData)
    \/ \E users \in UserListInputs : createUsersWithArray(users)
    \/ \E users \in UserListInputs : createUsersWithList(users)
    \/ \E username \in UsernameInputs : getUserByUsername(username)
    \/ \E username \in UsernameInputs, userData \in UserInputs : updateUser(username, userData)
    \/ \E username \in UsernameInputs : deleteUser(username)
    \/ \E username \in UsernameInputs, password \in PasswordInputs : login(username, password)
    \/ logout

\* ------------------------------------------------------------ utils

\* Object spread { ...a, ...b }: b's own keys win, a's other keys stay.
Spread(a, b) == [k \in DOMAIN a \cup DOMAIN b |-> IF k \in DOMAIN b THEN b[k] ELSE a[k]]

\* What Date.now() may return, and what Math.random() may draw.
ClockReadings == StartTime..(StartTime + MaxElapsed)
RandomDraws == 0..(RandomGrain - 1)

\* Math.floor(Math.random() * n), for the draw r / RandomGrain
RandomIndex(r, n) == (r * n) \div RandomGrain

getRandomItem(array, r) == array[RandomIndex(r, Len(array)) + 1]

\* generateUniqueId returns the clock reading t it takes; generateUniqueName
\* is `${prefix}_${generateUniqueId()}`.
generateUniqueName(prefix, t) == prefix \o <<"_">> \o NumberToString(t)

RECURSIVE PadStart(_, _)
PadStart(digits, width) ==
    IF Len(digits) >= width THEN digits ELSE PadStart(<<"0">> \o digits, width)

\* new Date(t).toISOString(), for a reading within the first minute of the
\* epoch (every ClockReadings value is)
toISOString(t) ==
    <<"1", "9", "7", "0", "-", "0", "1", "-", "0", "1", "T", "0", "0", ":", "0", "0", ":">>
        \o PadStart(NumberToString(t \div 1000), 2) \o <<".">>
        \o PadStart(NumberToString(t % 1000), 3) \o <<"Z">>

\* ------------------------------------------------------------ factories

DEFAULT_CATEGORIES ==
    << [id |-> 1, name |-> <<"D", "o", "g", "s">>], [id |-> 2, name |-> <<"C", "a", "t", "s">>],
       [id |-> 3, name |-> <<"B", "i", "r", "d", "s">>], [id |-> 4, name |-> <<"F", "i", "s", "h">>] >>

DEFAULT_TAGS ==
    << [id |-> 1, name |-> <<"f", "r", "i", "e", "n", "d", "l", "y">>],
       [id |-> 2, name |-> <<"e", "n", "e", "r", "g", "e", "t", "i", "c">>],
       [id |-> 3, name |-> <<"c", "a", "l", "m">>],
       [id |-> 4, name |-> <<"p", "l", "a", "y", "f", "u", "l">>] >>

\* createPetData with its overrides spread first, under the defaults
createPetData_defaultsLast(overrides, reads, draws) ==
    Spread(overrides,
           [id |-> reads[3],
            name |-> generateUniqueName(<<"T", "e", "s", "t", "P", "e", "t">>, reads[2]),
            photoUrls |-> << <<"h", "t", "t", "p", "s", ":", "/", "/", "e", "x", "a", "m", "p",
                               "l", "e", ".", "c", "o", "m", "/", "p", "h", "o", "t", "o", "_">>
                             \o NumberToString(reads[1]) \o <<".", "j", "p", "g">> >>,
            status |-> <<"a", "v", "a", "i", "l", "a", "b", "l", "e">>,
            category |-> getRandomItem(DEFAULT_CATEGORIES, draws[1]),
            tags |-> <<getRandomItem(DEFAULT_TAGS, draws[2])>>])

\* createPetData: reads are its three clock readings in the order taken
\* (timestamp, the default name's, the id's), draws its two random draws.
createPetData(overrides, reads, draws) ==
    Spread([id |-> reads[3],
            name |-> generateUniqueName(<<"T", "e", "s", "t", "P", "e", "t">>, reads[2]),
            photoUrls |-> << <<"h", "t", "t", "p", "s", ":", "/", "/", "e", "x", "a", "m", "p",
                               "l", "e", ".", "c", "o", "m", "/", "p", "h", "o", "t", "o", "_">>
                             \o NumberToString(reads[1]) \o <<".", "j", "p", "g">> >>,
            status |-> <<"a", "v", "a", "i", "l", "a", "b", "l", "e">>,
            category |-> getRandomItem(DEFAULT_CATEGORIES, draws[1]),
            tags |-> <<getRandomItem(DEFAULT_TAGS, draws[2])>>],
           overrides)

\* createOrderData: reads are the id's reading and the ship date's, draws
\* the pet id's and the quantity's.
createOrderData(overrides, reads, draws) ==
    Spread([id |-> reads[1],
            petId |-> RandomIndex(draws[1], 1000) + 1,
            quantity |-> RandomIndex(draws[2], 5) + 1,
            shipDate |-> toISOString(reads[2]),
            status |-> <<"p", "l", "a", "c", "e", "d">>,
            complete |-> FALSE],
           overrides)

\* generateEmail of a non-empty username (its callers here never pass an
\* empty one, so the random local part is not drawn)
generateEmail(username) ==
    username \o <<"@", "e", "x", "a", "m", "p", "l", "e", ".", "c", "o", "m">>

\* createUserData: reads are the timestamp's reading and the id's.
createUserData(overrides, reads) ==
    LET defaultUsername == <<"t", "e", "s", "t", "u", "s", "e", "r", "_">> \o NumberToString(reads[1])
    IN Spread([id |-> reads[2],
               username |-> defaultUsername,
               firstName |-> <<"T", "e", "s", "t">>,
               lastName |-> <<"U", "s", "e", "r">>,
               email |-> generateEmail(defaultUsername),
               password |-> <<"T", "e", "s", "t", "@", "1", "2", "3">>,
               phone |-> <<"+", "1", "2", "3", "4", "5", "6", "7", "8", "9", "0">>,
               userStatus |-> 1],
              overrides)

\* `${prefix}_${Date.now()}`, t the reading taken
generateUniqueUsername(prefix, t) == prefix \o <<"_">> \o NumberToString(t)

createMinimalUser(reads) ==
    LET username == generateUniqueUsername(<<"u", "s", "e", "r">>, reads[1])
    IN [username |-> username,
        email |-> generateEmail(username),
        password |-> <<"P", "a", "s", "s", "@", "1", "2", "3">>]

\* updatePetData mutating the instance it is given (Object.assign)
updatePetData_assign(existingPet, updates) ==
    [result |-> Spread(existingPet, updates), existing |-> Spread(existingPet, updates)]

\* The update factories: the instance returned, and the instance passed in
\* as it is after the call.
updatePetData(existingPet, updates) ==
    [result |-> Spread(existingPet, updates), existing |-> existingPet]

updateOrderData(existingOrder, updates) ==
    [result |-> Spread(existingOrder, updates), existing |-> existingOrder]

updateUserData(existingUser, updates) ==
    [result |-> Spread(existingUser, updates), existing |-> existingUser]

PetOverrides ==
    { NoFields,
      [name |-> <<"B", "u", "d", "d", "y">>],
      [id |-> 7, status |-> <<"s", "o", "l", "d">>],
      [photoUrls |-> <<>>, category |-> [id |-> 9, name |-> <<"X">>], tags |-> <<>>] }

OrderOverrides ==
    { NoFields,
      [id |-> 5],
      [petId |-> 123, quantity |-> 2],
      [shipDate |-> <<>>, status |-> <<"a", "p", "p", "r", "o", "v", "e", "d">>,
       complete |-> TRUE] }

UserOverrides ==
    { NoFields,
      [username |-> <<"b", "o", "b">>],
      [id |-> 3, email |-> <<"b", "@", "x">>, userStatus |-> 0],
      [firstName |-> <<>>, lastName |-> <<>>, password |-> <<>>, phone |-> <<>>] }

\* How many instances a test asks createMultiplePets or createMultipleOrders for.
CountInputs == {0, 1, 2}

\* What is remembered of a factory call when the next one is made: the
\* factory, whether it was called without overrides, and if so the
\* identifying keys of its result.
IdentifyingKeys(m) ==
    IF m.factory = "none" THEN [factory |-> "none"]
    ELSE IF m.overrides # NoFields THEN [factory |-> m.factory, plain |-> FALSE]
    ELSE [factory |-> m.factory,
          plain |-> TRUE,
          keys |-> [k \in DOMAIN m.result \cap {"id", "name", "username"} |-> m.result[k]]]

\* A factory call: it reads the clock, which never runs backwards, and
\* leaves the record of the call.
Make(factory, overrides, reads, draws, result) ==
    /\ now <= reads[1]
    /\ \A i \in 1..(Len(reads) - 1) : reads[i] <= reads[i + 1]
    /\ made' = [factory |-> factory, overrides |-> overrides, reads |-> reads,
                draws |-> draws, result |-> result]
    /\ prev' = IdentifyingKeys(made)
    /\ now' = reads[Len(reads)]
    /\ updated' = [factory |-> "none"]
    /\ UNCHANGED <<wrapperVars, scenarioVars, stepVars>>

CallCreatePetData(overrides) ==
    \E t1, t2, t3 \in ClockReadings, d1, d2 \in RandomDraws :
        Make("createPetData", overrides, <<t1, t2, t3>>, <<d1, d2>>,
             createPetData(overrides, <<t1, t2, t3>>, <<d1, d2>>))

CallCreateOrderData(overrides) ==
    \E t1, t2 \in ClockReadings, d1, d2 \in RandomDraws :
        Make("createOrderData", overrides, <<t1, t2>>, <<d1, d2>>,
             createOrderData(overrides, <<t1, t2>>, <<d1, d2>>))

CallCreateUserData(overrides) ==
    \E t1, t2 \in ClockReadings :
        Make("createUserData", overrides, <<t1, t2>>, <<>>,
             createUserData(overrides, <<t1, t2>>))

CallCreateMinimalUser ==
    \E t1 \in ClockReadings :
        Make("createMinimalUser", NoFields, <<t1>>, <<>>, createMinimalUser(<<t1>>))

\* An update-factory call on the instance the last factory call returned.
Update(factory, updates, after) ==
    /\ updated' = [factory |-> factory, before |-> made.result, updates |-> updates,
                   result |-> after.result, existing |-> after.existing]
    /\ UNCHANGED <<now, made, prev>>
    /\ UNCHANGED <<wrapperVars, scenarioVars, stepVars>>

CallUpdatePetData(updates) ==
    /\ made.factory = "createPetData"
    /\ Update("updatePetData", updates, updatePetData(made.result, updates))

CallUpdateOrderData(updates) ==
    /\ made.factory = "createOrderData"
    /\ Update("updateOrderData", updates, updateOrderData(made.result, updates))

CallUpdateUserData(updates) ==
    /\ made.factory \in {"createUserData", "createMinimalUser"}
    /\ Update("updateUserData", updates, updateUserData(made.result, updates))

\* createPetWithStatus: createPetData({ status, ...overrides })
createPetWithStatus(status, overrides, reads, draws) ==
    createPetData(Spread([status |-> status], overrides), reads, draws)

\* createOrderWithStatus: createOrderData({ status, ...overrides })
createOrderWithStatus(status, overrides, reads, draws) ==
    createOrderData(Spread([status |-> status], overrides), reads, draws)

\* createUserWithStatus: createUserData({ userStatus: status, ...overrides })
createUserWithStatus(status, overrides, reads) ==
    createUserData(Spread([userStatus |-> status], overrides), reads)

\* createMultiplePets: element index (from 1 here, from 0 in Array.from)
\* reads the clock for its name and then calls createPetData, which reads it
\* three times and draws twice.
createMultiplePets(count, baseOverrides, reads, draws) ==
    [index \in 1..count |->
        createPetData(
            Spread([name |-> <<"P", "e", "t", "_">> \o NumberToString(index) \o <<"_">>
                               \o NumberToString(reads[4 * (index - 1) + 1])],
                   baseOverrides),
            SubSeq(reads, 4 * (index - 1) + 2, 4 * (index - 1) + 4),
            SubSeq(draws, 2 * (index - 1) + 1, 2 * (index - 1) + 2))]

\* createMultipleOrders with `id: Date.now()`, the index not added
createMultipleOrders_noIndex(count, baseOverrides, reads, draws) ==
    [index \in 1..count |->
        createOrderData(
            Spread([id |-> reads[3 * (index - 1) + 1]], baseOverrides),
            SubSeq(reads, 3 * (index - 1) + 2, 3 * (index - 1) + 3),
            SubSeq(draws, 2 * (index - 1) + 1, 2 * (index - 1) + 2))]

\* createMultipleOrders: element index (from 1 here) reads the clock for its
\* id, adds its index from 0, and then calls createOrderData, which reads the
\* clock twice and draws twice.
createMultipleOrders(count, baseOverrides, reads, draws) ==
    [index \in 1..count |->
        createOrderData(
            Spread([id |-> reads[3 * (index - 1) + 1] + (index - 1)], baseOverrides),
            SubSeq(reads, 3 * (index - 1) + 2, 3 * (index - 1) + 3),
            SubSeq(draws, 2 * (index - 1) + 1, 2 * (index - 1) + 2))]

\* The n readings a call takes of a clock that stands at from and never
\* runs backwards.
RECURSIVE Readings(_, _)
Readings(n, from) ==
    IF n = 0 THEN {<<>>}
    ELSE UNION {{<<t>> \o rest : rest \in Readings(n - 1, t)} :
                   t \in {c \in ClockReadings : c >= from}}

\* The call a test makes of a factory that takes arguments besides its
\* overrides: it reads the clock and leaves the record of the call.
MakeWith(factory, args, reads, draws, result) ==
    /\ made.factory = "none"
    /\ made' = [factory |-> factory, args |-> args, reads |-> reads, draws |-> draws,
                result |-> result]
    /\ now' = IF reads = <<>> THEN now ELSE reads[Len(reads)]
    /\ UNCHANGED <<prev, updated>>
    /\ UNCHANGED <<wrapperVars, scenarioVars, stepVars>>

BatchNext ==
    \/ \E status \in {<<"a", "v", "a", "i", "l", "a", "b", "l", "e">>, <<"p", "e", "n", "d", "i", "n", "g">>}, overrides \in PetOverrides,
          reads \in Readings(3, now), draws \in [1..2 -> RandomDraws] :
            MakeWith("createPetWithStatus", [status |-> status, overrides |-> overrides],
                     reads, draws, createPetWithStatus(status, overrides, reads, draws))
    \/ \E status \in {<<"p", "l", "a", "c", "e", "d">>, <<"d", "e", "l", "i", "v", "e", "r", "e", "d">>}, overrides \in OrderOverrides,
          reads \in Readings(2, now), draws \in [1..2 -> RandomDraws] :
            MakeWith("createOrderWithStatus", [status |-> status, overrides |-> overrides],
                     reads, draws, createOrderWithStatus(status, overrides, reads, draws))
    \/ \E status \in {0, 1, 2}, overrides \in UserOverrides, reads \in Readings(2, now) :
            MakeWith("createUserWithStatus", [status |-> status, overrides |-> overrides],
                     reads, <<>>, createUserWithStatus(status, overrides, reads))
    \/ \E count \in CountInputs, baseOverrides \in PetOverrides :
        \E reads \in Readings(4 * count, now), draws \in [1..(2 * count) -> RandomDraws] :
            MakeWith("createMultiplePets", [count |-> count, overrides |-> baseOverrides],
                     reads, draws, createMultiplePets(count, baseOverrides, reads, draws))
    \/ \E count \in CountInputs, baseOverrides \in OrderOverrides :
        \E reads \in Readings(3 * count, now), draws \in [1..(2 * count) -> RandomDraws] :
            MakeWith("createMultipleOrders", [count |-> count, overrides |-> baseOverrides],
                     reads, draws, createMultipleOrders(count, baseOverrides, reads, draws))

\* ------------------------------------------------------------ scenarios

\* The scenarios of the pet suite that address the fixed id 999999999.
Scenarios == {"GetNonExistentPet", "UpdateNonExistentPet", "DeleteNonExistentPet",
              "UploadNonExistentPet", "FormNonExistentPet"}

nonExistentPetId == 999999999

\* The one wrapper call each of them makes.
ScenarioRequest(s) ==
    CASE s = "GetNonExistentPet" -> getPetRequest(nonExistentPetId)
      [] s = "UpdateNonExistentPet" ->
           updatePetRequest([id |-> nonExistentPetId,
                             name |-> <<"N", "o", "n", "E", "x", "i", "s", "t", "e", "n", "t",
                                        "P", "e", "t">>,
                             photoUrls |-> << <<"h", "t", "t", "p", "s", ":", "/", "/", "e", "x",
                                                "a", "m", "p", "l", "e", ".", "c", "o", "m", "/",
                                                "p", "h", "o", "t", "o", ".", "j", "p", "g">> >>,
                             status |-> <<"a", "v", "a", "i", "l", "a", "b", "l", "e">>])
      [] s = "DeleteNonExistentPet" -> deletePetRequest(nonExistentPetId)
      [] s = "UploadNonExistentPet" ->
           uploadImageRequest(nonExistentPetId,
                              <<"f", "a", "k", "e", "-", "p", "a", "t", "h", ".", "j", "p", "g">>,
                              Some(<<"m", "e", "t", "a", "d", "a", "t", "a">>))
      [] s = "FormNonExistentPet" ->
           updatePetWithFormRequest(nonExistentPetId,
                                    Some(<<"N", "e", "w", "N", "a", "m", "e">>),
                                    Some(<<"s", "o", "l", "d">>))

\* The statuses its expect(...) accepts.
ExpectedStatuses(s) ==
    CASE s = "GetNonExistentPet" -> {404}
      [] s = "UpdateNonExistentPet" -> {200}
      [] s = "DeleteNonExistentPet" -> {200}
      [] s = "UploadNonExistentPet" -> {404, 400, 415, 200}
      [] s = "FormNonExistentPet" -> {404, 400, 200}

\* A backend that stores what it is given: POST pet and PUT pet store the
\* body under its id (PUT creates the pet when it is not there), GET,
\* DELETE, the image upload and the form update answer 404 for an id that
\* is not stored, DELETE removes, the form update changes the fields sent.
Backend(stored, req) ==
    LET byId == {id \in PetIdInputs \cup ClockReadings : req.url = PET_BY_ID(id)}
        uploadOf == {id \in PetIdInputs \cup ClockReadings :
                        req.url = PET_BY_ID(id)
                                    \o <<"/", "u", "p", "l", "o", "a", "d", "I", "m", "a", "g", "e">>}
        notFound == [status |-> 404, body |-> NoFields, pets |-> stored]
    IN CASE req.url = PET_BASE /\ req.method \in {"POST", "PUT"} /\ "id" \in DOMAIN req.options.data ->
              [status |-> 200, body |-> req.options.data,
               pets |-> [i \in DOMAIN stored \cup {req.options.data.id} |->
                            IF i = req.options.data.id THEN req.options.data ELSE stored[i]]]
         [] byId # {} /\ req.method = "GET" ->
              LET id == CHOOSE i \in byId : TRUE
              IN IF id \in DOMAIN stored
                   THEN [status |-> 200, body |-> stored[id], pets |-> stored]
                   ELSE notFound
         [] byId # {} /\ req.method = "DELETE" ->
              LET id == CHOOSE i \in byId : TRUE
              IN IF id \in DOMAIN stored
                   THEN [status |-> 200, body |-> NoFields,
                         pets |-> [i \in DOMAIN stored \ {id} |-> stored[i]]]
                   ELSE notFound
         [] byId # {} /\ req.method = "POST" /\ "form" \in DOMAIN req.options ->
              LET id == CHOOSE i \in byId : TRUE
              IN IF id \in DOMAIN stored
                   THEN [status |-> 200, body |-> NoFields,
                         pets |-> [i \in DOMAIN stored |->
                                      IF i = id THEN Spread(stored[i], req.options.form)
                                      ELSE stored[i]]]
                   ELSE notFound
         [] uploadOf # {} /\ req.method = "POST" ->
              LET id == CHOOSE i \in uploadOf : TRUE
              IN IF id \in DOMAIN stored
                   THEN [status |-> 200, body |-> NoFields, pets |-> stored]
                   ELSE notFound
         [] OTHER -> [status |-> 400, body |-> NoFields, pets |-> stored]

\* The scenario calls its wrapper, which issues the request and awaits.
ScenarioSends(s) ==
    /\ scen[s].phase = "ready"
    /\ wire' = [wire EXCEPT ![s] = [kind |-> "request", req |-> ScenarioRequest(s)]]
    /\ scen' = [scen EXCEPT ![s].phase = "awaiting"]
    /\ UNCHANGED pets
    /\ UNCHANGED <<wrapperVars, factoryVars, stepVars>>

\* The backend handles one request in flight.
BackendHandles(s) ==
    /\ wire[s].kind = "request"
    /\ LET r == Backend(pets, wire[s].req)
       IN /\ pets' = r.pets
          /\ wire' = [wire EXCEPT ![s] = [kind |-> "answer", req |-> wire[s].req,
                                          status |-> r.status, body |-> r.body]]
    /\ UNCHANGED scen
    /\ UNCHANGED <<wrapperVars, factoryVars, stepVars>>

\* expect(response.status()) of the scenario: it passes when the status is
\* one it accepts, and fails otherwise (also when the wrapper throws).
Verdict(s, given) ==
    IF given.kind = "response" /\ given.status \in ExpectedStatuses(s)
      THEN "passed" ELSE "failed"

\* The wrapper returns the response and the scenario's expect decides.
ScenarioReceives(s) ==
    /\ wire[s].kind = "answer"
    /\ scen' = [scen EXCEPT ![s] =
                   [phase |-> "done",
                    verdict |-> Verdict(s, Fetch(wire[s].req, wire[s]))]]
    /\ wire' = [wire EXCEPT ![s] = [kind |-> "none"]]
    /\ UNCHANGED pets
    /\ UNCHANGED <<wrapperVars, factoryVars, stepVars>>

ScenarioNext ==
    \/ \E s \in Scenarios : ScenarioSends(s)
    \/ \E s \in Scenarios : BackendHandles(s)
    \/ \E s \in Scenarios : ScenarioReceives(s)

\* ------------------------------------------------------------ scenario steps

\* The multi-step scenarios: pet CRUD lifecycle and image upload of the pet
\* suite, get order and delete order of the store suite.
\* const orderCount = 3
orderCount == 3

StepScenarios ==
    {"PetCrudLifecycle", "UploadImageWithMetadata", "PartialUpdate", "GetOrderById", "DeleteOrder",
     "PlaceMultipleOrders"}

StepCount(s) ==
    IF s = "PetCrudLifecycle" THEN 5
    ELSE IF s = "PlaceMultipleOrders" THEN 2 * orderCount
    ELSE 3

\* obj.key of a parsed body: undefined when the body has no such key
Field(obj, key) == IF key \in DOMAIN obj THEN obj[key] ELSE undefined

\* expect(obj.key).toBe(value)
Has(obj, key, value) == key \in DOMAIN obj /\ obj[key] = value

\* How many clock readings the arrange part of a step takes: those of the
\* factory call of the first step (which also takes two random draws), and
\* before them the two of originalName and updatedName.
StepReads(s, k) ==
    IF s = "PlaceMultipleOrders" THEN (IF k <= orderCount THEN 2 ELSE 0)
    ELSE IF k # 1 THEN 0
    ELSE IF s = "PartialUpdate" THEN 5
    ELSE IF s \in {"PetCrudLifecycle", "UploadImageWithMetadata"} THEN 3 ELSE 2

\* originalName and updatedName of the partial-update scenario
StepNames(s, reads) ==
    IF s = "PartialUpdate"
      THEN <<<<"O", "r", "i", "g", "i", "n", "a", "l", "N", "a", "m", "e", "_">> \o NumberToString(reads[1]), <<"U", "p", "d", "a", "t", "e", "d", "N", "a", "m", "e", "_">> \o NumberToString(reads[2])>>
      ELSE <<>>

\* The payload the first step builds with its factory.
StepInput(s, reads, draws) ==
    CASE s = "PetCrudLifecycle" ->
           createPetData([name |-> <<"B", "u", "d", "d", "y">>, status |-> <<"a", "v", "a", "i", "l", "a", "b", "l", "e">>], reads, draws)
      [] s = "UploadImageWithMetadata" ->
           createPetData([name |-> <<"I", "m", "a", "g", "e", "P", "e", "t">>], reads, draws)
      [] s = "PartialUpdate" ->
           createPetData([name |-> StepNames(s, reads)[1], status |-> <<"a", "v", "a", "i", "l", "a", "b", "l", "e">>],
                         SubSeq(reads, 3, 5), draws)
      [] s = "GetOrderById" -> createOrderData([petId |-> 456, quantity |-> 3], reads, draws)
      [] s = "DeleteOrder" -> createOrderData(NoFields, reads, draws)
      [] s = "PlaceMultipleOrders" ->
           createOrderData([petId |-> 100, quantity |-> 1], reads, draws)

\* The request of step k: id is the scenario's createdPetId / petId /
\* orderId as it is when the step starts.
StepRequest(s, k, id, reads, draws) ==
    CASE s = "PetCrudLifecycle" ->
           (CASE k = 1 -> createPetRequest(StepInput(s, reads, draws))
             [] k = 2 -> getPetRequest(id)
             [] k = 3 -> updatePetRequest(
                             updatePetData([id |-> id, name |-> <<"B", "u", "d", "d", "y">>, photoUrls |-> <<>>,
                                            status |-> <<"a", "v", "a", "i", "l", "a", "b", "l", "e">>],
                                           [name |-> <<"M", "a", "x">>, status |-> <<"s", "o", "l", "d">>]).result)
             [] k = 4 -> deletePetRequest(id)
             [] k = 5 -> getPetRequest(id))
      [] s = "UploadImageWithMetadata" ->
           (CASE k = 1 -> createPetRequest(StepInput(s, reads, draws))
             [] k = 2 -> uploadImageRequest(id, <<"f", "a", "k", "e", "-", "p", "a", "t", "h", ".", "j", "p", "g">>, Some(<<"T", "e", "s", "t", " ", "i", "m", "a", "g", "e", " ", "u", "p", "l", "o", "a", "d">>))
             [] k = 3 -> deletePetRequest(id))
      [] s = "PartialUpdate" ->
           (CASE k = 1 -> createPetRequest(StepInput(s, reads, draws))
             [] k = 2 -> updatePetRequest(
                             updatePetData([id |-> id, name |-> run[s].names[1], photoUrls |-> <<>>,
                                            status |-> <<"a", "v", "a", "i", "l", "a", "b", "l", "e">>],
                                           [name |-> run[s].names[2]]).result)
             [] k = 3 -> deletePetRequest(id))
      [] s = "GetOrderById" ->
           (CASE k = 1 -> placeOrderRequest(StepInput(s, reads, draws))
             [] k = 2 -> getOrderByIdRequest(id)
             [] k = 3 -> deleteOrderRequest(id))
      [] s = "DeleteOrder" ->
           (CASE k = 1 -> placeOrderRequest(StepInput(s, reads, draws))
             [] k = 2 -> deleteOrderRequest(id)
             [] k = 3 -> getOrderByIdRequest(id))
      [] s = "PlaceMultipleOrders" ->
           IF k <= orderCount
             THEN placeOrderRequest(
                      createOrderData([petId |-> 100 + (k - 1), quantity |-> k], reads, draws))
             ELSE deleteOrderRequest(Field(run[s].seen[k - orderCount].body.json, "id"))

\* The statuses expect(response.status()) of step k accepts; every status
\* where the step does not look at it.
ExpectedStatus(s, k) ==
    CASE s = "PetCrudLifecycle" -> IF k = 5 THEN {404} ELSE {200}
      [] s = "UploadImageWithMetadata" -> IF k = 2 THEN {200, 415, 400} ELSE 100..599
      [] s = "PartialUpdate" -> IF k = 2 THEN {200} ELSE 100..599
      [] s = "GetOrderById" -> IF k = 2 THEN {200} ELSE 100..599
      [] s = "DeleteOrder" -> IF k = 2 THEN {200} ELSE IF k = 3 THEN {404} ELSE 100..599
      [] s = "PlaceMultipleOrders" -> IF k <= orderCount THEN {200} ELSE 100..599

\* Whether step k reads the body with response.json().
ParsesBody(s, k) ==
    CASE s = "PetCrudLifecycle" -> k \in {1, 2, 3}
      [] s = "UploadImageWithMetadata" -> k = 1
      [] s = "PartialUpdate" -> k \in {1, 2}
      [] s = "GetOrderById" -> k \in {1, 2}
      [] s = "DeleteOrder" -> k = 1
      [] s = "PlaceMultipleOrders" -> k <= orderCount

\* The expect(...)s of step k on the parsed body.
BodyChecks(s, k, id, obj) ==
    CASE s = "PetCrudLifecycle" /\ k = 1 ->
           /\ Field(obj, "id") # undefined
           /\ Has(obj, "name", <<"B", "u", "d", "d", "y">>)
           /\ Has(obj, "status", <<"a", "v", "a", "i", "l", "a", "b", "l", "e">>)
      [] s = "PetCrudLifecycle" /\ k = 2 ->
           /\ Has(obj, "id", id)
           /\ Has(obj, "name", <<"B", "u", "d", "d", "y">>)
           /\ Has(obj, "status", <<"a", "v", "a", "i", "l", "a", "b", "l", "e">>)
      [] s = "PetCrudLifecycle" /\ k = 3 ->
           /\ Has(obj, "id", id)
           /\ Has(obj, "name", <<"M", "a", "x">>)
           /\ Has(obj, "status", <<"s", "o", "l", "d">>)
      [] s = "PartialUpdate" /\ k = 2 ->
           /\ Has(obj, "name", run[s].names[2])
           /\ Has(obj, "status", <<"a", "v", "a", "i", "l", "a", "b", "l", "e">>)
      [] s = "GetOrderById" /\ k = 2 ->
           /\ Has(obj, "id", id)
           /\ Has(obj, "petId", 456)
           /\ Has(obj, "quantity", 3)
      [] OTHER -> TRUE

\* APIResponse.json(): the parsed value, or the SyntaxError of JSON.parse,
\* whose message depends on the engine: the unexpected token with its
\* position, or the token with the start of the text.
json(body, engine) ==
    IF "json" \in DOMAIN body THEN [kind |-> "ok", value |-> body.json]
    ELSE IF body.text = <<>>
      THEN [kind |-> "throw", message |-> <<"U", "n", "e", "x", "p", "e", "c", "t", "e", "d", " ", "e", "n", "d", " ", "o", "f", " ", "J", "S", "O", "N", " ", "i", "n", "p", "u", "t">>]
    ELSE IF engine = "position"
      THEN [kind |-> "throw",
            message |-> <<"U", "n", "e", "x", "p", "e", "c", "t", "e", "d", " ", "t", "o", "k", "e", "n", " ">> \o <<body.text[1]>>
                          \o <<" ", "i", "n", " ", "J", "S", "O", "N", " ", "a", "t", " ", "p", "o", "s", "i", "t", "i", "o", "n", " ", "0">>]
    ELSE [kind |-> "throw",
          message |-> <<"U", "n", "e", "x", "p", "e", "c", "t", "e", "d", " ", "t", "o", "k", "e", "n", " ", "'">> \o <<body.text[1]>> \o <<"'", ",", " ", "\"">>
                        \o (IF Len(body.text) <= 21 THEN body.text \o <<"\"">>
                            ELSE SubSeq(body.text, 1, 10) \o <<"\"", ".", ".", ".">>)
                        \o <<" ", "i", "s", " ", "n", "o", "t", " ", "v", "a", "l", "i", "d", " ", "J", "S", "O", "N">>]

\* What follows the await of step k: the status expectation, the parse, the
\* body expectations, and the identifier the first step keeps.
StepCheck(s, k, id, given, engine) ==
    IF given.kind = "throw"
      THEN [ok |-> FALSE, id |-> id, error |-> [kind |-> "transport"]]
    ELSE IF given.status \notin ExpectedStatus(s, k)
      THEN [ok |-> FALSE, id |-> id, error |-> [kind |-> "expect"]]
    ELSE IF ~ParsesBody(s, k)
      THEN [ok |-> TRUE, id |-> id, error |-> [kind |-> "none"]]
    ELSE IF json(given.body, engine).kind = "throw"
      THEN [ok |-> FALSE, id |-> id,
            error |-> [kind |-> "parse", message |-> json(given.body, engine).message,
                       body |-> given.body.text]]
    ELSE IF ~BodyChecks(s, k, id, json(given.body, engine).value)
      THEN [ok |-> FALSE, id |-> id, error |-> [kind |-> "expect"]]
    ELSE [ok |-> TRUE,
          id |-> IF k = 1 THEN Field(json(given.body, engine).value, "id") ELSE id,
          error |-> [kind |-> "none"]]

\* The store side of the backend: POST store/order stores the body under
\* its id, GET and DELETE answer 404 for an id that is not stored.
OrderBackend(stored, req) ==
    LET byId == {id \in OrderIdInputs \cup ClockReadings : req.url = STORE_ORDER_BY_ID(id)}
        notFound == [status |-> 404, body |-> NoFields, orders |-> stored]
    IN CASE req.url = STORE_ORDER /\ req.method = "POST" /\ "id" \in DOMAIN req.options.data ->
              [status |-> 200, body |-> req.options.data,
               orders |-> [i \in DOMAIN stored \cup {req.options.data.id} |->
                              IF i = req.options.data.id THEN req.options.data ELSE stored[i]]]
         [] byId # {} /\ req.method = "GET" ->
              LET id == CHOOSE i \in byId : TRUE
              IN IF id \in DOMAIN stored
                   THEN [status |-> 200, body |-> stored[id], orders |-> stored]
                   ELSE notFound
         [] byId # {} /\ req.method = "DELETE" ->
              LET id == CHOOSE i \in byId : TRUE
              IN IF id \in DOMAIN stored
                   THEN [status |-> 200, body |-> NoFields,
                         orders |-> [i \in DOMAIN stored \ {id} |-> stored[i]]]
                   ELSE notFound
         [] OTHER -> [status |-> 400, body |-> NoFields, orders |-> stored]

\* Place the order, then get it by the id of the body the create call
\* returned, against the backend holding no other order: what the get
\* returns.
RoundTrip(orderData) ==
    LET placed == OrderBackend(NoFields, placeOrderRequest(orderData))
        createdOrder == Fetch(placeOrderRequest(orderData),
                              [kind |-> "answer", status |-> placed.status,
                               body |-> placed.body]).body
        got == OrderBackend(placed.orders, getOrderByIdRequest(Field(createdOrder, "id")))
    IN Fetch(getOrderByIdRequest(Field(createdOrder, "id")),
             [kind |-> "answer", status |-> got.status, body |-> got.body])

\* The clock readings a step may take: n of them, none before the last
\* reading taken, none before the one before it.
ReadsOf(n) ==
    {reads \in [1..n -> ClockReadings] :
        /\ n > 0 => now <= reads[1]
        /\ \A i \in 1..(n - 1) : reads[i] <= reads[i + 1]}

\* A scenario that does not await its wrapper calls
CanSend_noAwait(s) == run[s].verdict = "running"

\* The scenario is between two steps: every request it issued has been
\* answered and the answer consumed.
CanSend(s) ==
    /\ run[s].verdict = "running"
    /\ run[s].issued = run[s].consumed

\* A step up to its await: the arrange part, then the wrapper call, which
\* issues the step's request.
StepSends(s) ==
    /\ CanSend(s)
    /\ run[s].issued < StepCount(s)
    /\ LET k == run[s].issued + 1
       IN \E reads \in ReadsOf(StepReads(s, k)),
             draws \in [1..(IF StepReads(s, k) > 0 THEN 2 ELSE 0) -> RandomDraws] :
            /\ flight' = flight \cup {[s |-> s, step |-> k, kind |-> "request",
                                       req |-> StepRequest(s, k, run[s].id, reads, draws)]}
            /\ run' = [run EXCEPT ![s].issued = k,
                                  ![s].input = IF k = 1 THEN StepInput(s, reads, draws) ELSE @,
                                  ![s].names = IF k = 1 THEN StepNames(s, reads) ELSE @]
            /\ now' = IF reads = <<>> THEN now ELSE reads[Len(reads)]
    /\ UNCHANGED <<pets, orders, faults>>
    /\ UNCHANGED <<wrapperVars, made, prev, updated, scen, wire>>

\* The backend handles a request in flight and answers it.
BackendServes(m) ==
    /\ m \in flight
    /\ m.kind = "request"
    /\ LET store == Len(m.req.url) >= 5 /\ SubSeq(m.req.url, 1, 5) = <<"s", "t", "o", "r", "e">>
           r == IF store THEN OrderBackend(orders, m.req) ELSE Backend(pets, m.req)
       IN /\ pets' = IF store THEN pets ELSE r.pets
          /\ orders' = IF store THEN r.orders ELSE orders
          /\ flight' = (flight \ {m}) \cup
                         {[s |-> m.s, step |-> m.step, kind |-> "answer", req |-> m.req,
                           status |-> r.status, body |-> [json |-> r.body]]}
    /\ UNCHANGED <<run, faults>>
    /\ UNCHANGED <<wrapperVars, factoryVars, scen, wire>>

\* What the remote API is seen to answer instead: not found for a resource
\* just created, an error body, a body that is not JSON.
FaultAnswers ==
    { [status |-> 404, body |-> [json |-> [code |-> 1, type |-> "error", message |-> "not found"]]],
      [status |-> 500, body |-> [json |-> [code |-> 500, type |-> "unknown",
                                           message |-> "something bad happened"]]],
      [status |-> 200, body |-> [text |-> <<"<", "h", "t", "m", "l", ">", "5", "0", "2", " ", "B", "a", "d", " ", "G", "a", "t", "e", "w", "a", "y", "<", "/", "h", "t", "m", "l", ">">>]] }

\* The backend answers a request without acting on it.
BackendFaults(m) ==
    /\ m \in flight
    /\ m.kind = "request"
    /\ faults < MaxFaults
    /\ faults' = faults + 1
    /\ \E a \in FaultAnswers :
         flight' = (flight \ {m}) \cup
                     {[s |-> m.s, step |-> m.step, kind |-> "answer", req |-> m.req,
                       status |-> a.status, body |-> a.body]}
    /\ UNCHANGED <<pets, orders, run>>
    /\ UNCHANGED <<wrapperVars, factoryVars, scen, wire>>

\* The request times out or the connection is refused.
TransportDrops(m) ==
    /\ m \in flight
    /\ m.kind = "request"
    /\ faults < MaxFaults
    /\ faults' = faults + 1
    /\ flight' = (flight \ {m}) \cup
                   {[s |-> m.s, step |-> m.step, kind |-> "failure", req |-> m.req]}
    /\ UNCHANGED <<pets, orders, run>>
    /\ UNCHANGED <<wrapperVars, factoryVars, scen, wire>>

\* A transport failure that never settles the await it belongs to
StepReceives_deafToFailure(s) ==
    \E m \in flight, engine \in {"position", "snippet"} :
        /\ m.s = s
        /\ m.kind = "answer"
        /\ m.step = run[s].consumed + 1
        /\ LET given == Fetch(m.req, m)
               c == StepCheck(s, m.step, run[s].id, given, engine)
           IN run' = [run EXCEPT ![s] =
                         [verdict |-> IF ~c.ok THEN "failed"
                                      ELSE IF m.step = StepCount(s) THEN "passed"
                                      ELSE "running",
                          issued |-> run[s].issued,
                          consumed |-> m.step,
                          id |-> c.id,
                          input |-> run[s].input,
                          names |-> run[s].names,
                          seen |-> Append(run[s].seen, given),
                          error |-> c.error]]
        /\ flight' = flight \ {m}
        /\ UNCHANGED <<pets, orders, faults>>
        /\ UNCHANGED <<wrapperVars, factoryVars, scen, wire>>

\* The await of the step settles: the wrapper returns or throws, the rest of
\* the step runs, and a failed expectation or an exception ends the
\* scenario there.
StepReceives(s) ==
    \E m \in flight, engine \in {"position", "snippet"} :
        /\ m.s = s
        /\ m.kind \in {"answer", "failure"}
        /\ m.step = run[s].consumed + 1
        /\ LET given == Fetch(m.req, m)
               c == StepCheck(s, m.step, run[s].id, given, engine)
           IN run' = [run EXCEPT ![s] =
                         [verdict |-> IF ~c.ok THEN "failed"
                                      ELSE IF m.step = StepCount(s) THEN "passed"
                                      ELSE "running",
                          issued |-> run[s].issued,
                          consumed |-> m.step,
                          id |-> c.id,
                          input |-> run[s].input,
                          names |-> run[s].names,
                          seen |-> Append(run[s].seen, given),
                          error |-> c.error]]
        /\ flight' = flight \ {m}
        /\ UNCHANGED <<pets, orders, faults>>
        /\ UNCHANGED <<wrapperVars, factoryVars, scen, wire>>

StepsNext ==
    \/ \E s \in StepScenarios : StepSends(s)
    \/ \E m \in flight : BackendServes(m)
    \/ \E m \in flight : BackendFaults(m)
    \/ \E m \in flight : TransportDrops(m)
    \/ \E s \in StepScenarios : StepReceives(s)

\* Against a backend that behaves and a transport that delivers.
AloneNext ==
    \/ \E s \in StepScenarios : StepSends(s)
    \/ \E m \in flight : BackendServes(m)
    \/ \E s \in StepScenarios : StepReceives(s)

\* ------------------------------------------------------------ specifications

\* The wrappers before their first call, the configuration loaded with
\* API_BASE_URL = e.
WrapperInitWith(e) ==
    /\ pc = "idle"
    /\ call = [op |-> "none", args |-> NoFields]
    /\ sent = <<>>
    /\ net = Pending
    /\ outcome = Pending
    /\ nCalls = 0
    /\ nRequests = 0
    /\ firstDelete = Pending
    /\ env = e

WrapperInit == WrapperInitWith(NONE)

FactoryInit ==
    /\ now = StartTime
    /\ made = [factory |-> "none"]
    /\ prev = [factory |-> "none"]
    /\ updated = [factory |-> "none"]

\* Every scenario is about to start, against a backend holding no pet.
ScenarioInit ==
    /\ scen = [s \in Scenarios |-> [phase |-> "ready", verdict |-> "running"]]
    /\ wire = [s \in Scenarios |-> [kind |-> "none"]]
    /\ pets = NoFields

\* A multi-step scenario before its first step, running or not selected.
Fresh(verdict) ==
    [verdict |-> verdict, issued |-> 0, consumed |-> 0, id |-> undefined,
     input |-> NoFields, names |-> <<>>, seen |-> <<>>, error |-> [kind |-> "none"]]

\* The scenarios of W are about to start, one worker each, against a
\* backend holding no order.
StepsInit(W) ==
    /\ run = [s \in StepScenarios |-> IF s \in W THEN Fresh("running") ELSE Fresh("off")]
    /\ flight = {}
    /\ faults = 0
    /\ orders = NoFields

Init == WrapperInit /\ FactoryInit /\ ScenarioInit /\ StepsInit({})

Next ==
    \/ PetServiceCall
    \/ StoreServiceCall
    \/ UserServiceCall
    \/ BackendAnswers
    \/ TransportFails

Spec == Init /\ [][Next]_vars

FactoryNext ==
    \/ \E overrides \in PetOverrides : CallCreatePetData(overrides)
    \/ \E overrides \in OrderOverrides : CallCreateOrderData(overrides)
    \/ \E overrides \in UserOverrides : CallCreateUserData(overrides)
    \/ CallCreateMinimalUser
    \/ \E updates \in PetOverrides : CallUpdatePetData(updates)
    \/ \E updates \in OrderOverrides : CallUpdateOrderData(updates)
    \/ \E updates \in UserOverrides : CallUpdateUserData(updates)

SpecFactory == Init /\ [][FactoryNext]_vars

\* One call of a factory that takes a status or a count.
SpecBatch == Init /\ [][BatchNext]_vars

\* The scenarios run concurrently, one worker each (fullyParallel).
SpecScenarios == Init /\ [][ScenarioNext]_vars

\* The scenarios that run at the same time: any one, or the two store
\* scenarios (each creates an order with createOrderData and deletes one).
Workers == {{s} : s \in StepScenarios} \cup {{"GetOrderById", "DeleteOrder"}}

StepsStart == WrapperInit /\ FactoryInit /\ ScenarioInit /\ \E W \in Workers : StepsInit(W)

SpecSteps == StepsStart /\ [][StepsNext]_vars

\* One scenario, run alone.
AloneStart ==
    WrapperInit /\ FactoryInit /\ ScenarioInit /\ \E s \in StepScenarios : StepsInit({s})

SpecAlone == AloneStart /\ [][AloneNext]_vars

\* The scenarios with what their scheduling guarantees: a scenario between
\* two steps goes on to the next, a settled await resumes its scenario, and
\* every request in flight gets its answer or its transport failure.
StepsFairness ==
    \A s \in StepScenarios :
        /\ WF_vars(StepSends(s))
        /\ WF_vars(StepReceives(s))
        /\ WF_vars(\E m \in flight :
                       m.s = s /\ (BackendServes(m) \/ BackendFaults(m) \/ TransportDrops(m)))

\* One scenario at a time, against a backend and a transport that may fail it.
SpecStepsFair == AloneStart /\ [][StepsNext]_vars /\ StepsFairness

\* The wrappers under any setting of API_BASE_URL.
ConfigStart ==
    /\ \E e \in EnvInputs : WrapperInitWith(e)
    /\ FactoryInit /\ ScenarioInit /\ StepsInit({})

SpecConfig == ConfigStart /\ [][Next]_vars

\* ------------------------------------------------------------ properties

Invoked == call.op # "none"

\* C1: every invocation of a wrapper operation issues exactly one HTTP
\* request, on every branch of uploadImage too, and none after the response:
\* the requests issued so far are as many as the invocations.
C1_OneRequestPerInvocation ==
    Invoked => Len(sent) = 1 /\ nRequests = nCalls

\* uploadImage of an unreadable file has been answered, as the second call
C1_Witness ==
    /\ pc = "returned"
    /\ call.op = "uploadImage"
    /\ Disk(call.args.filePath).kind = "unreadable"
    /\ net.kind = "answer" /\ net.status = 500
    /\ nCalls = 2

\* C2: whatever status the backend answers with, the wrapper returns that
\* response, status and body unchanged, and does not throw.
C2_StatusReturnedAsValue ==
    net.kind = "answer" =>
        /\ pc = "returned"
        /\ outcome = [kind |-> "response", status |-> net.status, body |-> net.body]

\* getPet answered 404 and deleteOrder answered 500 are both values
C2_Witness ==
    /\ call.op = "getPet"
    /\ net.kind = "answer" /\ net.status = 404
    /\ outcome.kind = "response" /\ outcome.status = 404

JsonOps == {"createPet", "updatePet", "placeOrder", "createUser", "updateUser",
            "createUsersWithArray", "createUsersWithList"}

JsonInput(c) ==
    CASE c.op \in {"createPet", "updatePet"} -> c.args.petData
      [] c.op = "placeOrder" -> c.args.orderData
      [] c.op \in {"createUser", "updateUser"} -> c.args.userData
      [] c.op \in {"createUsersWithArray", "createUsersWithList"} -> c.args.users

\* C3: a JSON-bodied operation issues its request for every input, invalid
\* ones included, and the request's body is the input itself.
C3_JsonBodyIsInput ==
    call.op \in JsonOps =>
        /\ Len(sent) = 1
        /\ "data" \in DOMAIN sent[1].options
        /\ sent[1].options.data = JsonInput(call)

\* createUser of a user without userStatus, and with an empty username
C3_Witness ==
    /\ call.op = "createUser"
    /\ call.args.userData = [username |-> <<>>, password |-> <<"p", "w">>]
    /\ pc = "returned"

\* The interface table: method and relative path of each operation.
TableMethod(op) ==
    CASE op \in {"createPet", "uploadImage", "updatePetWithForm", "placeOrder", "createUser",
                 "createUsersWithArray", "createUsersWithList"} -> "POST"
      [] op \in {"getPet", "findPetsByStatus", "getInventory", "getOrderById",
                 "getUserByUsername", "login", "logout"} -> "GET"
      [] op \in {"updatePet", "updateUser"} -> "PUT"
      [] op \in {"deletePet", "deleteOrder", "deleteUser"} -> "DELETE"

TablePath(c) ==
    LET pet == <<"p", "e", "t">>
        store == <<"s", "t", "o", "r", "e">>
        order == store \o <<"/", "o", "r", "d", "e", "r">>
        user == <<"u", "s", "e", "r">>
        createWith == user \o <<"/", "c", "r", "e", "a", "t", "e", "W", "i", "t", "h">>
    IN CASE c.op \in {"createPet", "updatePet"} -> pet
         [] c.op \in {"getPet", "deletePet", "updatePetWithForm"} ->
              pet \o <<"/">> \o NumberToString(c.args.petId)
         [] c.op = "findPetsByStatus" ->
              pet \o <<"/", "f", "i", "n", "d", "B", "y", "S", "t", "a", "t", "u", "s", "?">>
                  \o <<"s", "t", "a", "t", "u", "s", "=">> \o c.args.status
         [] c.op = "uploadImage" ->
              pet \o <<"/">> \o NumberToString(c.args.petId)
                  \o <<"/", "u", "p", "l", "o", "a", "d", "I", "m", "a", "g", "e">>
         [] c.op = "getInventory" ->
              store \o <<"/", "i", "n", "v", "e", "n", "t", "o", "r", "y">>
         [] c.op = "placeOrder" -> order
         [] c.op \in {"getOrderById", "deleteOrder"} ->
              order \o <<"/">> \o NumberToString(c.args.orderId)
         [] c.op = "createUser" -> user
         [] c.op = "createUsersWithArray" -> createWith \o <<"A", "r", "r", "a", "y">>
         [] c.op = "createUsersWithList" -> createWith \o <<"L", "i", "s", "t">>
         [] c.op \in {"getUserByUsername", "updateUser", "deleteUser"} ->
              user \o <<"/">> \o c.args.username
         [] c.op = "login" ->
              user \o <<"/", "l", "o", "g", "i", "n", "?">>
                   \o <<"u", "s", "e", "r", "n", "a", "m", "e", "=">> \o c.args.username
                   \o <<"&", "p", "a", "s", "s", "w", "o", "r", "d", "=">> \o c.args.password
         [] c.op = "logout" -> user \o <<"/", "l", "o", "g", "o", "u", "t">>

\* C4: each operation's request has the method and the relative path of the
\* interface table, for every argument.
C4_MethodAndPathPerTable ==
    Invoked =>
        /\ Len(sent) = 1
        /\ sent[1].method = TableMethod(call.op)
        /\ sent[1].url = TablePath(call)

\* deletePet(999999999) went out as DELETE pet/999999999
C4_Witness ==
    /\ call.op = "deletePet"
    /\ call.args.petId = 999999999
    /\ sent[1].method = "DELETE"
    /\ sent[1].url = <<"p", "e", "t", "/", "9", "9", "9", "9", "9", "9", "9", "9", "9">>

\* What a factory generates when nothing is overridden, under the same
\* clock readings and random draws as the call m.
GeneratedDefaults(m) ==
    CASE m.factory = "createPetData" -> createPetData(NoFields, m.reads, m.draws)
      [] m.factory = "createOrderData" -> createOrderData(NoFields, m.reads, m.draws)
      [] m.factory = "createUserData" -> createUserData(NoFields, m.reads)

\* The defaults that are fixed values of the source.
FixedDefaults(factory) ==
    CASE factory = "createPetData" -> [status |-> <<"a", "v", "a", "i", "l", "a", "b", "l", "e">>]
      [] factory = "createOrderData" ->
           [status |-> <<"p", "l", "a", "c", "e", "d">>, complete |-> FALSE]
      [] factory = "createUserData" ->
           [firstName |-> <<"T", "e", "s", "t">>, lastName |-> <<"U", "s", "e", "r">>,
            password |-> <<"T", "e", "s", "t", "@", "1", "2", "3">>,
            phone |-> <<"+", "1", "2", "3", "4", "5", "6", "7", "8", "9", "0">>,
            userStatus |-> 1]

\* C5: in the result of createPetData, createUserData and createOrderData
\* every field of the overrides has the override's value and every other
\* field has the generated default.
C5_OverridesWin ==
    made.factory \in {"createPetData", "createOrderData", "createUserData"} =>
        /\ DOMAIN made.result = DOMAIN GeneratedDefaults(made) \cup DOMAIN made.overrides
        /\ \A k \in DOMAIN made.overrides : made.result[k] = made.overrides[k]
        /\ \A k \in DOMAIN made.result \ DOMAIN made.overrides :
               /\ made.result[k] = GeneratedDefaults(made)[k]
               /\ k \in DOMAIN FixedDefaults(made.factory) =>
                      made.result[k] = FixedDefaults(made.factory)[k]

\* createPetData({ id: 7, status: 'sold' }) while the clock ran on: the two
\* overrides are kept and the name is the generated one
C5_Witness ==
    /\ made.factory = "createPetData"
    /\ made.overrides = [id |-> 7, status |-> <<"s", "o", "l", "d">>]
    /\ made.reads = <<998, 999, 999>>
    /\ made.result.id = 7
    /\ made.result.status = <<"s", "o", "l", "d">>
    /\ made.result.name = <<"T", "e", "s", "t", "P", "e", "t", "_", "9", "9", "9">>
    /\ made.result.photoUrls[1] =
         <<"h", "t", "t", "p", "s", ":", "/", "/", "e", "x", "a", "m", "p", "l", "e", ".",
           "c", "o", "m", "/", "p", "h", "o", "t", "o", "_", "9", "9", "8", ".", "j", "p", "g">>

\* C6: two consecutive calls with no overrides to the same factory give
\* results whose identifying keys (id, name, username) all differ.
C6_ConsecutiveKeysDiffer ==
    (/\ made.factory # "none"
     /\ prev.factory = made.factory
     /\ prev.plain
     /\ made.overrides = NoFields) =>
        \A k \in DOMAIN prev.keys : made.result[k] # prev.keys[k]

\* C7: an update factory returns an instance with the updates' fields at the
\* updates' values and every other field as in the existing instance, and
\* the existing instance is after the call what it was before.
C7_UpdateLeavesOriginal ==
    updated.factory # "none" =>
        /\ DOMAIN updated.result = DOMAIN updated.before \cup DOMAIN updated.updates
        /\ \A k \in DOMAIN updated.updates : updated.result[k] = updated.updates[k]
        /\ \A k \in DOMAIN updated.before \ DOMAIN updated.updates :
               updated.result[k] = updated.before[k]
        /\ updated.existing = updated.before

\* updateUserData(user, { username: 'bob' }) on a generated user with another
\* username
C7_Witness ==
    /\ updated.factory = "updateUserData"
    /\ updated.updates = [username |-> <<"b", "o", "b">>]
    /\ updated.result.username = <<"b", "o", "b">>
    /\ updated.before.username # <<"b", "o", "b">>
    /\ updated.existing.username = updated.before.username
    /\ updated.result.email = updated.before.email

\* The verdict of scenario s when it runs alone, against the backend as it
\* is before any scenario has run.
AloneVerdict(s) ==
    LET r == Backend(NoFields, ScenarioRequest(s))
    IN Verdict(s, Fetch(ScenarioRequest(s),
                        [kind |-> "answer", status |-> r.status, body |-> r.body]))

\* C10: in every interleaving of the concurrently running scenarios, each
\* scenario's verdict is the verdict it gets when run alone.
C10_VerdictAsAlone ==
    \A s \in Scenarios : scen[s].phase = "done" => scen[s].verdict = AloneVerdict(s)

\* C8: updatePetWithForm puts no field into the form body whose argument was
\* not provided: no key for it at all, no empty string in its place, and no
\* key other than name and status.
C8_FormOmitsAbsentFields ==
    call.op = "updatePetWithForm" =>
        LET form == sent[1].options.form
        IN /\ DOMAIN form \subseteq {"name", "status"}
           /\ call.args.name = NONE => "name" \notin DOMAIN form
           /\ call.args.status = NONE => "status" \notin DOMAIN form
           /\ \A k \in DOMAIN form : form[k] # <<>>

\* only a status was provided, and only the status is in the form
C8_Witness ==
    /\ call.op = "updatePetWithForm"
    /\ call.args.name = NONE
    /\ call.args.status = Some(<<"s", "o", "l", "d">>)
    /\ sent[1].options.form = [status |-> <<"s", "o", "l", "d">>]
    /\ pc = "returned"

Placeholders ==
    { <<"d", "u", "m", "m", "y", " ", "i", "m", "a", "g", "e", " ",
        "c", "o", "n", "t", "e", "n", "t">>,
      <<"d", "u", "m", "m", "y", " ", "c", "o", "n", "t", "e", "n", "t">> }

\* C9: when the file of filePath does not exist or cannot be read,
\* uploadImage does not fail: it issues the multipart POST to
\* pet/{id}/uploadImage with a non-empty placeholder buffer as the file part.
C9_MissingFileUploadsPlaceholder ==
    (call.op = "uploadImage" /\ Disk(call.args.filePath).kind # "file") =>
        /\ Len(sent) = 1
        /\ sent[1].method = "POST"
        /\ sent[1].url = PET_BY_ID(call.args.petId)
                           \o <<"/", "u", "p", "l", "o", "a", "d", "I", "m", "a", "g", "e">>
        /\ "multipart" \in DOMAIN sent[1].options
        /\ sent[1].options.multipart.file.buffer \in Placeholders
        /\ Len(sent[1].options.multipart.file.buffer) > 0
        /\ outcome.kind = "throw" => net.kind = "failure"

\* a missing file that matches neither test pattern was uploaded and answered
C9_Witness ==
    /\ call.op = "uploadImage"
    /\ call.args.filePath = <<"g", "o", "n", "e", ".", "p", "d", "f">>
    /\ Disk(call.args.filePath).kind = "missing"
    /\ sent[1].options.multipart.file.name = <<"t", "e", "s", "t", ".", "j", "p", "g">>
    /\ pc = "returned"

\* C11: two scenarios running in different workers that each build their
\* resource with a factory, the id not overridden, have different ids, and
\* no follow-up request of one addresses the resource the other created.
C11_ConcurrentIdsDiffer ==
    \A a, b \in StepScenarios :
        (a # b /\ run[a].issued >= 1 /\ run[b].issued >= 1) =>
            /\ run[a].input.id # run[b].input.id
            /\ \A m \in flight :
                   (m.s = a /\ m.step > 1) =>
                       m.req # StepRequest(a, m.step, run[b].input.id, <<>>, <<>>)

\* C12: a scenario has at most one request or answer in flight, the one of
\* the step it is in; its steps are issued one after the other, each after
\* the answer to the one before has been consumed; and the pet CRUD
\* lifecycle issues create, get, update, delete, get in that order.
C12_StepsInOrderOneInFlight ==
    \A s \in StepScenarios :
        LET mine == {m \in flight : m.s = s}
        IN /\ run[s].issued - run[s].consumed \in {0, 1}
           /\ Cardinality(mine) = run[s].issued - run[s].consumed
           /\ \A m \in mine : m.step = run[s].issued
           /\ Len(run[s].seen) = run[s].consumed
           /\ s = "PetCrudLifecycle" =>
                  \A m \in mine : m.req.method = <<"POST", "GET", "PUT", "DELETE", "GET">>[m.step]

\* the lifecycle has consumed four answers and its last get is in flight
C12_Witness ==
    /\ run["PetCrudLifecycle"].consumed = 4
    /\ run["PetCrudLifecycle"].issued = 5
    /\ \E m \in flight : m.s = "PetCrudLifecycle" /\ m.step = 5 /\ m.kind = "request"
                           /\ m.req.method = "GET"

\* The scenarios that end with a cleanup step, and whether scenario s has
\* created its resource: the create call was answered 200 with an id.
CleansUp == {"UploadImageWithMetadata", "GetOrderById"}

Created(s) ==
    /\ run[s].consumed >= 1
    /\ run[s].seen[1].kind = "response"
    /\ run[s].seen[1].status = 200
    /\ run[s].id # undefined

\* C13: a scenario that has created its resource and is over, passed or
\* failed, has issued its cleanup delete.
C13_CleanupIssuedWhenOver ==
    \A s \in CleansUp :
        (run[s].verdict \in {"passed", "failed"} /\ Created(s)) =>
            run[s].issued = StepCount(s)

\* C14: no request is issued with an undefined identifier in its path.
C14_NoUndefinedIdInPath ==
    \A m \in flight : ~Includes(m.req.url, <<"u", "n", "d", "e", "f", "i", "n", "e", "d">>)

\* C15: the pet CRUD lifecycle, run alone against the storing backend, sees
\* 200 with name Buddy, 200 with the same id, 200 with name Max and status
\* sold, 200, and 404 for the same id, in that order, and passes.
C15_LifecycleAlone ==
    LET r == run["PetCrudLifecycle"]
    IN r.verdict # "off" =>
         /\ r.verdict # "failed"
         /\ \A k \in 1..Len(r.seen) :
                /\ r.seen[k].kind = "response"
                /\ r.seen[k].status = <<200, 200, 200, 200, 404>>[k]
         /\ Len(r.seen) >= 1 => /\ r.seen[1].body.json.name = <<"B", "u", "d", "d", "y">>
                                /\ r.seen[1].body.json.id = r.id
         /\ Len(r.seen) >= 2 => r.seen[2].body.json.id = r.id
         /\ Len(r.seen) >= 3 => /\ r.seen[3].body.json.id = r.id
                                /\ r.seen[3].body.json.name = <<"M", "a", "x">>
                                /\ r.seen[3].body.json.status = <<"s", "o", "l", "d">>
         /\ r.consumed = 5 => r.verdict = "passed" /\ r.id \notin DOMAIN pets

\* the lifecycle has passed, its last get answered 404
C15_Witness ==
    /\ run["PetCrudLifecycle"].verdict = "passed"
    /\ Len(run["PetCrudLifecycle"].seen) = 5
    /\ run["PetCrudLifecycle"].seen[5].status = 404
    /\ run["PetCrudLifecycle"].id = 999

\* C16: for the order a createOrderData call has produced, placing it and
\* getting it by the id the create call returned gives 200 and a body with
\* the order's id, petId and quantity.
C16_OrderRoundTrip ==
    made.factory = "createOrderData" =>
        /\ RoundTrip(made.result).kind = "response"
        /\ RoundTrip(made.result).status = 200
        /\ RoundTrip(made.result).body.id = made.result.id
        /\ RoundTrip(made.result).body.petId = made.result.petId
        /\ RoundTrip(made.result).body.quantity = made.result.quantity

\* createOrderData() with a generated id, pet id and quantity makes the trip
C16_Witness ==
    /\ made.factory = "createOrderData"
    /\ made.overrides = NoFields
    /\ made.result.id = 999
    /\ made.result.petId = 501
    /\ RoundTrip(made.result).status = 200
    /\ RoundTrip(made.result).body.id = 999

\* C17: the scenarios named after the 404 of a non-existent pet (get, update,
\* delete) fail when the backend answers 200.
C17_DeviationNeverPasses ==
    \A s \in {"GetNonExistentPet", "UpdateNonExistentPet", "DeleteNonExistentPet"} :
        (wire[s].kind = "answer" /\ wire[s].status = 200) =>
            Verdict(s, Fetch(wire[s].req, wire[s])) = "failed"

\* C18: when the transport fails, the wrapper throws the failure to its
\* caller, having issued its one request and no other.
C18_TransportFailurePropagates ==
    net.kind = "failure" =>
        /\ pc = "threw"
        /\ outcome = [kind |-> "throw", error |-> "transport"]
        /\ Len(sent) = 1
        /\ nRequests = nCalls

\* uploadImage of a missing file: the placeholder went out, the transport
\* failed, uploadImage threw
C18_Witness ==
    /\ call.op = "uploadImage"
    /\ Disk(call.args.filePath).kind = "missing"
    /\ ~Includes(call.args.filePath, <<"f", "a", "k", "e", "-", "p", "a", "t", "h">>)
    /\ net.kind = "failure"
    /\ pc = "threw"
    /\ Len(sent) = 1

\* C19: a delete call that repeats the first delete call made issues the
\* same single request, whatever was called in between, and returns what
\* the backend answers, success or not-found, without throwing.
C19_DeleteTwiceSameRequest ==
    (firstDelete.kind = "delete" /\ call = firstDelete.call) =>
        /\ sent = firstDelete.reqs
        /\ Len(sent) = 1
        /\ sent[1].method = "DELETE"
        /\ net.kind = "answer" =>
               /\ pc = "returned"
               /\ outcome = [kind |-> "response", status |-> net.status, body |-> net.body]

\* deleteUser('bob'), another call, deleteUser('bob') again, answered 404
C19_Witness ==
    /\ firstDelete.kind = "delete"
    /\ firstDelete.between
    /\ nCalls = 3
    /\ call = firstDelete.call
    /\ call = [op |-> "deleteUser", args |-> [username |-> <<"b", "o", "b">>]]
    /\ net.kind = "answer" /\ net.status = 404
    /\ pc = "returned"

\* C20: a scenario that reads a body that is not JSON fails with an error
\* whose message contains the text of the body.
C20_ParseErrorCarriesBody ==
    \A s \in StepScenarios :
        run[s].error.kind = "parse" =>
            /\ run[s].verdict = "failed"
            /\ Includes(run[s].error.message, run[s].error.body)

\* C21: for every value of API_BASE_URL (unset, empty, any string) the base
\* URL ends with a slash, is the variable when that is set and not empty and
\* 'https://petstore.swagger.io/v2/' otherwise, and is the same in
\* API_CONFIG.BASE_URL and in use.baseURL.
C21_BaseUrlEndsWithSlash ==
    /\ EndsWith(BASE_URL(env), <<"/">>)
    /\ BASE_URL(env) = IF env # NONE /\ env[1] # <<>> THEN env[1]
                       ELSE <<"h", "t", "t", "p", "s", ":", "/", "/", "p", "e", "t", "s", "t", "o", "r", "e", ".", "s", "w", "a", "g", "g", "e", "r", ".", "i", "o", "/", "v", "2", "/">>
    /\ baseURL(env) = BASE_URL(env)

\* C22: updatePetWithForm sends every field that was explicitly provided, with
\* exactly the value provided: for name and for status, the form body has the
\* key if and only if the argument was provided, and a provided empty string
\* is sent as an empty value.
C22_FormSendsProvidedFields ==
    call.op = "updatePetWithForm" =>
        LET form == sent[1].options.form
        IN \A k \in {"name", "status"} :
            /\ k \in DOMAIN form <=> call.args[k] # NONE
            /\ call.args[k] # NONE => form[k] = call.args[k][1]

\* C29: for every filePath the file part of the upload is named
\* basename(filePath), its mimeType is 'application/pdf' exactly when filePath
\* ends with '.pdf' and 'image/jpeg' otherwise, its buffer is the content of
\* the file whenever the file exists and can be read and a placeholder only
\* when it does not, and additionalMetadata is in the payload exactly when it
\* was provided.
C29_FilePartFollowsFilePath ==
    call.op = "uploadImage" =>
        LET multipart == sent[1].options.multipart
            filePath == call.args.filePath
        IN /\ multipart.file.name = basename(filePath)
           /\ multipart.file.mimeType =
                  IF EndsWith(filePath, <<".", "p", "d", "f">>) THEN "application/pdf" ELSE "image/jpeg"
           /\ Disk(filePath).kind = "file" => multipart.file.buffer = Disk(filePath).content
           /\ Disk(filePath).kind # "file" => multipart.file.buffer \in Placeholders
           /\ "additionalMetadata" \in DOMAIN multipart <=> call.args.additionalMetadata # NONE
           /\ call.args.additionalMetadata # NONE =>
                  multipart.additionalMetadata = call.args.additionalMetadata[1]

\* How a URL reference is read (RFC 3986): the fragment starts at the first
\* '#', the query at the first '?' before it, and the query is a list of
\* key=value pairs separated by '&'.  No input here holds a percent escape or
\* a '+', so the pieces are their own decoded values.
IndexOf(s, c) ==
    IF \E i \in 1..Len(s) : s[i] = c
      THEN CHOOSE i \in 1..Len(s) : s[i] = c /\ \A j \in 1..(i - 1) : s[j] # c
      ELSE 0

BeforeChar(s, c) == IF IndexOf(s, c) = 0 THEN s ELSE SubSeq(s, 1, IndexOf(s, c) - 1)

AfterChar(s, c) == IF IndexOf(s, c) = 0 THEN <<>> ELSE SubSeq(s, IndexOf(s, c) + 1, Len(s))

UrlPath(url) == BeforeChar(BeforeChar(url, "#"), "?")

UrlQuery(url) == AfterChar(BeforeChar(url, "#"), "?")

RECURSIVE SplitOn(_, _)
SplitOn(s, c) ==
    IF s = <<>> THEN <<>>
    ELSE IF IndexOf(s, c) = 0 THEN <<s>>
    ELSE <<BeforeChar(s, c)>> \o SplitOn(AfterChar(s, c), c)

QueryParams(url) ==
    LET pieces == SelectSeq(SplitOn(UrlQuery(url), "&"), LAMBDA p : p # <<>>)
    IN [i \in 1..Len(pieces) |->
           [key |-> BeforeChar(pieces[i], "="), value |-> AfterChar(pieces[i], "=")]]

\* C23: for every username and password, those holding '&', '=', '#', '?' or
\* spaces included, the request of login carries exactly two query
\* parameters, username and password, whose decoded values are the inputs.
C23_LoginQueryCarriesInputs ==
    call.op = "login" =>
        QueryParams(sent[1].url) =
            << [key |-> <<"u", "s", "e", "r", "n", "a", "m", "e">>, value |-> call.args.username],
               [key |-> <<"p", "a", "s", "s", "w", "o", "r", "d">>, value |-> call.args.password] >>

\* C24: the user created with username u is the user that
\* getUserByUsername(u), updateUser(u, ..) and deleteUser(u) address, for
\* every u, those holding '#', '?', '/' or '@' included: the path of the
\* request is user/ followed by one segment, and that segment is u.
C24_PathAddressesUsername ==
    call.op \in {"getUserByUsername", "updateUser", "deleteUser"} =>
        LET path == UrlPath(sent[1].url)
        IN /\ Len(path) >= 5
           /\ SubSeq(path, 1, 5) = <<"u", "s", "e", "r", "/">>
           /\ SubSeq(path, 6, Len(path)) = call.args.username
           /\ IndexOf(call.args.username, "/") = 0

\* C25: createPetWithStatus, createOrderWithStatus and createUserWithStatus
\* return an instance whose status (userStatus for a user) is the status
\* argument, whatever the overrides.
C25_StatusArgumentWins ==
    /\ made.factory \in {"createPetWithStatus", "createOrderWithStatus"} =>
           Has(made.result, "status", made.args.status)
    /\ made.factory = "createUserWithStatus" =>
           Has(made.result, "userStatus", made.args.status)

\* C26: createMultiplePets(count), no id and no name among its base
\* overrides, returns exactly count pets whose ids differ pairwise and whose
\* names differ pairwise, also when the whole call falls into one clock
\* millisecond.
C26_MultiplePetsDistinct ==
    (made.factory = "createMultiplePets"
         /\ DOMAIN made.args.overrides \cap {"id", "name"} = {}) =>
        /\ Len(made.result) = made.args.count
        /\ \A i, j \in 1..Len(made.result) :
               i # j => /\ made.result[i].id # made.result[j].id
                        /\ made.result[i].name # made.result[j].name

\* C27: createMultipleOrders(count), no id among its base overrides, returns
\* exactly count orders whose ids differ pairwise, on a clock that never runs
\* backwards: each id is the clock reading taken for it plus its index.
C27_MultipleOrdersDistinct ==
    (made.factory = "createMultipleOrders" /\ "id" \notin DOMAIN made.args.overrides) =>
        /\ Len(made.result) = made.args.count
        /\ \A i \in 1..Len(made.result) :
               made.result[i].id = made.reads[3 * (i - 1) + 1] + (i - 1)
        /\ \A i, j \in 1..Len(made.result) :
               i # j => made.result[i].id # made.result[j].id

\* two orders made within one millisecond have two ids
C27_Witness ==
    /\ made.factory = "createMultipleOrders"
    /\ made.args = [count |-> 2, overrides |-> [petId |-> 123, quantity |-> 2]]
    /\ \A i \in 1..Len(made.reads) : made.reads[i] = StartTime
    /\ made.result[1].id = StartTime
    /\ made.result[2].id = StartTime + 1

\* C28: in the partial-update scenario, which updates only the name, against
\* a backend where PUT replaces the stored record with the body, every other
\* field of the pet (status, photoUrls, category, tags) has after the update
\* the value it had after creation.
C28_PartialUpdateKeepsOtherFields ==
    LET r == run["PartialUpdate"]
    IN (r.verdict = "running" /\ r.consumed = 2) =>
        /\ r.id \in DOMAIN pets
        /\ \A key \in {"status", "photoUrls", "category", "tags"} :
               Has(pets[r.id], key, r.input[key])

\* C30: every request getting its response or its transport failure, every
\* scenario that runs finishes with a verdict, passed or failed, having
\* issued no more requests than it has steps, and none of its requests is in
\* flight once it has its verdict.
C30_ScenariosTerminate ==
    /\ \A s \in StepScenarios :
           (run[s].verdict = "running") ~> (run[s].verdict \in {"passed", "failed"})
    /\ [](\A s \in StepScenarios :
             /\ run[s].issued <= StepCount(s)
             /\ run[s].verdict \in {"passed", "failed"} => \A m \in flight : m.s # s)

\* the three orders were placed and deleted, and the scenario has passed
C30_Witness ==
    /\ run["PlaceMultipleOrders"].verdict = "passed"
    /\ run["PlaceMultipleOrders"].issued = 2 * orderCount
    /\ run["PlaceMultipleOrders"].consumed = 2 * orderCount
    /\ \A m \in flight : m.s # "PlaceMultipleOrders"

====
